---- MODULE Spec2Model ----
(***************************************************************************)
(* A model of the pygreynoise client library.                              *)
(*                                                                         *)
(*   src/src/greynoise/api.py   class GreyNoise: _request, get_noise,      *)
(*                              get_noise_status, get_noise_status_bulk,   *)
(*                              get_context, get_actors                    *)
(*   src/src/greynoise/util.py  load_config, validate_ip                   *)
(*                                                                         *)
(* The client is synchronous and single-threaded.  An operation is cut at  *)
(* its blocking HTTP exchanges: one action models the call up to the first *)
(* request being on the wire, one action models the arrival of a response  *)
(* together with everything the operation does with it (up to the next     *)
(* request, the return or the exception).  The remote service is the       *)
(* environment: it answers a pending request with any status code and any  *)
(* JSON body of the endpoint's shape.                                      *)
(*                                                                         *)
(* Abstractions.                                                           *)
(*  - An IPv4 address string is the sequence of its dot-separated labels;  *)
(*    a label is the number it spells in decimal, or NonNumeric when it    *)
(*    is not a number ("example", "::1").                                  *)
(*  - A JSON object is a function from field names to values, so that an   *)
(*    absent field is a name outside its DOMAIN; a JSON array is a         *)
(*    sequence.  Response bodies are well-formed JSON.                     *)
(*  - A Python call either returns a value or raises: Ok(v) / Raise(e).    *)
(***************************************************************************)
EXTENDS Integers, Sequences, FiniteSets, TLC

VARIABLES
    self,           \* the GreyNoise instance: api_key, timeout
    code_messages,  \* the class attribute GreyNoise.CODE_MESSAGES
    pc,             \* "idle" | "waiting" (in session.get) | "returned" | "raised"
    op,             \* the client operation in progress or last ended
    arg,            \* its argument
    endpoint,       \* get_noise's local `endpoint`
    noise_ips,      \* get_noise's local `noise_ips`
    offset,         \* get_noise's local `offset`
    sent,           \* the HTTP requests the operation has issued, in order
    received,       \* the HTTP responses it has received, in order
    result,         \* the value the operation returned
    error,          \* the exception the operation raised
    call,           \* input of a utility function under check
    ret             \* its outcome

clientVars == <<self, code_messages, pc, op, arg, endpoint, noise_ips, offset,
                sent, received, result, error>>
utilVars == <<call, ret>>
vars == <<self, code_messages, pc, op, arg, endpoint, noise_ips, offset,
          sent, received, result, error, call, ret>>

----------------------------------------------------------------------------
(* Bounds of the model *)

\* get_noise pages the service answers before it stops answering
MaxPages == 3
\* length of the list handed to get_noise_status_bulk, and of its response
MaxIps == 2
\* labels of an address string handed to validate_ip
MaxLabels == 5

----------------------------------------------------------------------------
(* Python values *)

Ok(v) == [raised |-> FALSE, value |-> v]
Raise(e) == [raised |-> TRUE, error |-> e]

None == [type |-> "NoneType"]
NoResult == [set |-> FALSE]
Returned(v) == [set |-> TRUE, value |-> v]
NoError == [type |-> "none"]

ValueError(message) == [type |-> "ValueError", message |-> message]
KeyError(key) == [type |-> "KeyError", key |-> key]
\* greynoise.exceptions.RequestFailure(status_code, content)
RequestFailure(status_code, content) ==
    [type |-> "RequestFailure", status_code |-> status_code, content |-> content]

\* dict.get(key, default)
Get(d, key, default) == IF key \in DOMAIN d THEN d[key] ELSE default

\* d with d[key] = value assigned
SetItem(d, key, value) ==
    [k \in (DOMAIN d) \cup {key} |-> IF k = key THEN value ELSE d[k]]

\* A template with one replacement field is the text before and after the
\* field; str.format puts the value's text between them
Format(template, text) == template[1] \o text \o template[2]

\* "sep".join(parts)
RECURSIVE Join(_, _)
Join(sep, parts) ==
    IF parts = <<>> THEN ""
    ELSE IF Len(parts) = 1 THEN parts[1]
    ELSE parts[1] \o sep \o Join(sep, Tail(parts))

----------------------------------------------------------------------------
(* util.validate_ip *)

NonNumeric == 0 - 1

\* the text of an address: its labels joined by dots
IpText(ip_address) ==
    Join(".", [i \in 1..Len(ip_address) |->
                 IF ip_address[i] = NonNumeric THEN "host" ELSE ToString(ip_address[i])])

\* socket.inet_aton: one to four numeric labels, every label but the last a
\* byte, the last one filling the remaining bytes ("127.1", "1" are accepted)
\* (the numbers of the model are below 2^31: all of them fit four bytes)
FitsBytes(number, bytes) == bytes >= 4 \/ number < 256 ^ bytes

inet_aton(ip_address) ==
    LET n == Len(ip_address) IN
    /\ n \in 1..4
    /\ \A i \in 1..n : ip_address[i] # NonNumeric
    /\ \A i \in 1..(n - 1) : FitsBytes(ip_address[i], 1)
    /\ FitsBytes(ip_address[n], 5 - n)

validate_ip(ip_address, strict) ==
    IF inet_aton(ip_address)
    THEN Ok(TRUE)
    ELSE IF strict
         THEN Raise(ValueError(Format(<<"Invalid IP address: '", "'">>, IpText(ip_address))))
         ELSE Ok(FALSE)

----------------------------------------------------------------------------
(* api.GreyNoise: class attributes *)

BASE_URL == "https://enterprise.api.greynoise.io"
CLIENT_VERSION == 1
API_VERSION == "v2"
EP_NOISE_BULK == "noise/bulk"
EP_NOISE_BULK_DATE == <<"noise/bulk/", "">>
EP_NOISE_QUICK == <<"noise/quick/", "">>
EP_NOISE_MULTI == "noise/multi/quick"
EP_NOISE_CONTEXT == <<"noise/context/", "">>
EP_RESEARCH_ACTORS == "research/actors"
UNKNOWN_CODE_MESSAGE == <<"Code message unknown: ", "">>
CODE_MESSAGES ==
    [code \in {"0x00", "0x01", "0x02", "0x03", "0x04", "0x05", "0x06", "0x07", "0x08"} |->
        CASE code = "0x00" -> "IP has never been observed scanning the Internet"
          [] code = "0x01" -> "IP has been observed by the GreyNoise sensor network"
          [] code = "0x02" -> "IP has been observed scanning the GreyNoise sensor network, but has not completed a full connection, meaning this can be spoofed"
          [] code = "0x03" -> "IP is adjacent to another host that has been directly observed by the GreyNoise sensor network"
          [] code = "0x04" -> "RESERVED"
          [] code = "0x05" -> "IP is commonly spoofed in Internet-scan activity"
          [] code = "0x06" -> "IP has been observed as noise, but this host belongs to a cloud provider where IPs can be cycled frequently"
          [] code = "0x07" -> "IP is invalid"
          [] code = "0x08" -> "IP was classified as noise, but has not been observed engaging in Internet-wide scans or attacks in over 60 days"]

\* __init__'s default timeout
DEFAULT_TIMEOUT == 7

----------------------------------------------------------------------------
(* api.GreyNoise._request *)

\* the request _request puts on the wire (params=None becomes {})
BuildRequest(client, ep, params, json) ==
    [url |-> Join("/", <<BASE_URL, API_VERSION, ep>>),
     headers |-> [client |-> Format(<<"pyGreyNoise v", "">>, ToString(CLIENT_VERSION)),
                  key |-> client.api_key],
     timeout |-> client.timeout,
     params |-> params,
     json |-> json]

\* requests.Response: .content is the raw body, .json() parses it
Content(body) == <<"bytes", body>>
ResponseJson(response) == response.content[2]

\* (mutant) redirections taken for successes: status_code < 400
StatusAcceptedBelow400(status_code) == status_code \in 200..399

\* response.status_code in range(200, 299)
StatusAccepted(status_code) == status_code \in 200..(299 - 1)

\* what _request does with the response session.get hands it
RequestOutcome(response) ==
    IF ~StatusAccepted(response.status_code)
    THEN Raise(RequestFailure(response.status_code, response.content))
    ELSE Ok(ResponseJson(response))

----------------------------------------------------------------------------
(* The environment: arguments of the calls, answers of the service *)

\* the JSON objects with field `name` absent or holding a value of S
Opt(name, S) == {<<>>} \cup { [k \in {name} |-> v] : v \in S }
\* the object with the fields of both (disjoint field names)
Merge(a, b) ==
    [k \in (DOMAIN a) \cup (DOMAIN b) |-> IF k \in DOMAIN a THEN a[k] ELSE b[k]]
SeqsUpTo(S, n) == UNION { [1..k -> S] : k \in 0..n }

StatusCodes == {199, 200, 299, 300, 404}

\* datetime.date(2019, 1, 1), no date, and a value that is no datetime.date
DateArgs ==
    {None,
     [type |-> "date", year |-> 2019, month |-> 1, day |-> 1],
     [type |-> "str", text |-> "2019-13-45"]}

\* "1.2.3.4", "127.1", "256.1.1.1", "host"
Addresses == {<<1, 2, 3, 4>>, <<127, 1>>, <<256, 1, 1, 1>>, <<NonNumeric>>}

\* a list of addresses, or a lone address string where a list is expected
BulkArgs ==
    { [type |-> "list", items |-> l] : l \in SeqsUpTo(Addresses, MaxIps) }
    \cup {[type |-> "str", items |-> <<1, 2, 3, 4>>]}

Codes == {"0x00", "0x05", "0x09"}

NoisePages ==
    { Merge(Merge(a, b), c) :
        a \in Opt("noise_ips", {<<"1.1.1.1">>, <<"2.2.2.2">>}),
        b \in Opt("offset", {100}),
        c \in Opt("complete", BOOLEAN) }
QuickBodies ==
    { Merge([ip |-> "1.2.3.4", noise |-> TRUE], c) : c \in Opt("code", Codes) }
BulkBodies ==
    SeqsUpTo({ Merge([ip |-> "1.2.3.4"], c) : c \in Opt("code", Codes) }, MaxIps)
ContextBodies ==
    { Merge([ip |-> "1.2.3.4", seen |-> FALSE], c) : c \in Opt("code", Codes) }
ActorBodies == {<<>>, <<[name |-> "Shodan", ips |-> <<"1.1.1.1">>]>>}

Response(status_code, body) ==
    [status_code |-> status_code, content |-> Content(body)]

----------------------------------------------------------------------------
(* api.GreyNoise: the operations *)

\* a fresh call frame of operation o with argument a
Begin(o, a) ==
    /\ pc = "idle"
    /\ op' = o
    /\ arg' = a
    /\ received' = <<>>
    /\ noise_ips' = <<>>
    /\ offset' = 0 - 1
    /\ UNCHANGED <<self, code_messages, call, ret>>

\* the operation raises e
Fail(e) ==
    /\ pc' = "raised"
    /\ error' = e
    /\ result' = NoResult

\* the operation returns v
Return(v) ==
    /\ pc' = "returned"
    /\ result' = Returned(v)
    /\ error' = NoError

\* the operation blocks in session.get
Wait ==
    /\ pc' = "waiting"
    /\ result' = NoResult
    /\ error' = NoError

\* operation o blocks in session.get
Pending(o) ==
    /\ pc = "waiting"
    /\ op = o

\* session.get hands the response to _request
Arrive(response) ==
    /\ received' = Append(received, response)
    /\ UNCHANGED <<self, code_messages, op, arg, endpoint, call, ret>>

\* date.strftime("%Y-%m-%d")
Pad2(n) == IF n < 10 THEN "0" \o ToString(n) ELSE ToString(n)
strftime(date) == Join("-", <<ToString(date.year), Pad2(date.month), Pad2(date.day)>>)

\* get_noise, lines 115-122: the endpoint, or ValueError
NoiseEndpoint(date) ==
    IF date.type = "NoneType"
    THEN Ok(EP_NOISE_BULK)
    ELSE IF date.type # "date"
         THEN Raise(ValueError("date argument must be an instance of datetime.date"))
         ELSE Ok(Format(EP_NOISE_BULK_DATE, strftime(date)))

\* get_noise, lines 125 and 130: the accumulated list after a page
NoiseIps(first, ips, page) ==
    IF first
    THEN Get(page, "noise_ips", <<>>)
    ELSE ips \o Get(page, "noise_ips", <<>>)

get_noise(date) ==
    /\ Begin("get_noise", date)
    /\ LET e == NoiseEndpoint(date) IN
       IF e.raised
       THEN /\ Fail(e.error)
            /\ endpoint' = ""
            /\ sent' = <<>>
       ELSE /\ Wait
            /\ endpoint' = e.value
            /\ sent' = <<BuildRequest(self, e.value, <<>>, None)>>

\* (mutant) a failed page is requested again instead of ending the operation
get_noise_page_retrying ==
    /\ Pending("get_noise")
    /\ Len(received) < MaxPages
    /\ \E status_code \in StatusCodes, body \in NoisePages :
       LET response == Response(status_code, body) IN
       /\ Arrive(response)
       /\ LET r == RequestOutcome(response) IN
          IF r.raised
          THEN /\ Wait
               /\ sent' = Append(sent, sent[Len(sent)])
               /\ UNCHANGED <<noise_ips, offset>>
          ELSE LET page == r.value
                   ips == NoiseIps(received = <<>>, noise_ips, page)
               IN  /\ noise_ips' = ips
                   /\ offset' = Get(page, "offset", 0 - 1)
                   /\ IF "complete" \notin DOMAIN page
                      THEN /\ Fail(KeyError("complete"))
                           /\ UNCHANGED sent
                      ELSE IF page.complete
                      THEN /\ Return(ips)
                           /\ UNCHANGED sent
                      ELSE /\ Wait
                           /\ sent' = Append(sent,
                                  BuildRequest(self, endpoint, [offset |-> offset'], None))

\* a page arrives: lines 124-127, or one turn of the loop, lines 129-132
get_noise_page ==
    /\ Pending("get_noise")
    /\ Len(received) < MaxPages
    /\ \E status_code \in StatusCodes, body \in NoisePages :
       LET response == Response(status_code, body) IN
       /\ Arrive(response)
       /\ LET r == RequestOutcome(response) IN
          IF r.raised
          THEN /\ Fail(r.error)
               /\ UNCHANGED <<noise_ips, offset, sent>>
          ELSE LET page == r.value
                   ips == NoiseIps(received = <<>>, noise_ips, page)
               IN  /\ noise_ips' = ips
                   /\ offset' = Get(page, "offset", 0 - 1)
                   /\ IF "complete" \notin DOMAIN page
                      THEN /\ Fail(KeyError("complete"))
                           /\ UNCHANGED sent
                      ELSE IF page.complete
                      THEN /\ Return(ips)
                           /\ UNCHANGED sent
                      ELSE /\ Wait
                           /\ sent' = Append(sent,
                                  BuildRequest(self, endpoint, [offset |-> offset'], None))

\* CODE_MESSAGES.get(code, UNKNOWN_CODE_MESSAGE.format(code))
CodeMessage(table, code) ==
    IF code \in DOMAIN table THEN table[code] ELSE Format(UNKNOWN_CODE_MESSAGE, code)

\* (mutant) CODE_MESSAGES[code]: a code outside the table raises KeyError
AddCodeMessageKnownOnly(table, res) ==
    IF "code" \notin DOMAIN res
    THEN Raise(KeyError("code"))
    ELSE IF res.code \notin DOMAIN table
         THEN Raise(KeyError(res.code))
         ELSE Ok(SetItem(res, "code_message", table[res.code]))

\* (mutant) result.get("code"): an object without a code is left as it is
AddCodeMessageIfPresent(table, res) ==
    IF "code" \notin DOMAIN res
    THEN Ok(res)
    ELSE Ok(SetItem(res, "code_message", CodeMessage(table, res.code)))

\* code = result["code"]; result["code_message"] = ...
AddCodeMessage(table, res) ==
    IF "code" \notin DOMAIN res
    THEN Raise(KeyError("code"))
    ELSE Ok(SetItem(res, "code_message", CodeMessage(table, res.code)))

get_noise_status(ip_address) ==
    /\ Begin("get_noise_status", ip_address)
    /\ LET v == validate_ip(ip_address, TRUE) IN
       IF v.raised
       THEN /\ Fail(v.error)
            /\ endpoint' = ""
            /\ sent' = <<>>
       ELSE /\ Wait
            /\ endpoint' = Format(EP_NOISE_QUICK, IpText(ip_address))
            /\ sent' = <<BuildRequest(self, endpoint', <<>>, None)>>

get_noise_status_reply ==
    /\ Pending("get_noise_status")
    /\ \E status_code \in StatusCodes, body \in QuickBodies :
       LET response == Response(status_code, body) IN
       /\ Arrive(response)
       /\ UNCHANGED <<noise_ips, offset, sent>>
       /\ LET r == RequestOutcome(response) IN
          IF r.raised
          THEN Fail(r.error)
          ELSE LET a == AddCodeMessage(code_messages, r.value) IN
               IF a.raised THEN Fail(a.error) ELSE Return(a.value)

\* lines 169-173: the addresses that pass the non-strict validation
ValidAddresses(ip_addresses) ==
    SelectSeq(ip_addresses, LAMBDA ip_address : validate_ip(ip_address, FALSE).value)

\* lines 175-180: the loop over the results; the first one without a code raises
BulkResults(table, results) ==
    IF \E i \in 1..Len(results) : AddCodeMessage(table, results[i]).raised
    THEN Raise(KeyError("code"))
    ELSE Ok([i \in 1..Len(results) |-> AddCodeMessage(table, results[i]).value])

get_noise_status_bulk(ip_addresses) ==
    /\ Begin("get_noise_status_bulk", ip_addresses)
    /\ endpoint' = ""
    /\ IF ip_addresses.type # "list"
       THEN /\ Fail(ValueError("ip_addresses must be a list"))
            /\ sent' = <<>>
       ELSE /\ Wait
            /\ sent' = <<BuildRequest(self, EP_NOISE_MULTI, <<>>,
                                      [ips |-> ValidAddresses(ip_addresses.items)])>>

get_noise_status_bulk_reply ==
    /\ Pending("get_noise_status_bulk")
    /\ \E status_code \in StatusCodes, body \in BulkBodies :
       LET response == Response(status_code, body) IN
       /\ Arrive(response)
       /\ UNCHANGED <<noise_ips, offset, sent>>
       /\ LET r == RequestOutcome(response) IN
          IF r.raised
          THEN Fail(r.error)
          ELSE LET b == BulkResults(code_messages, r.value) IN
               IF b.raised THEN Fail(b.error) ELSE Return(b.value)

get_context(ip_address) ==
    /\ Begin("get_context", ip_address)
    /\ LET v == validate_ip(ip_address, TRUE) IN
       IF v.raised
       THEN /\ Fail(v.error)
            /\ endpoint' = ""
            /\ sent' = <<>>
       ELSE /\ Wait
            /\ endpoint' = Format(EP_NOISE_CONTEXT, IpText(ip_address))
            /\ sent' = <<BuildRequest(self, endpoint', <<>>, None)>>

get_context_reply ==
    /\ Pending("get_context")
    /\ \E status_code \in StatusCodes, body \in ContextBodies :
       LET response == Response(status_code, body) IN
       /\ Arrive(response)
       /\ UNCHANGED <<noise_ips, offset, sent>>
       /\ LET r == RequestOutcome(response) IN
          IF r.raised THEN Fail(r.error) ELSE Return(r.value)

get_actors ==
    /\ Begin("get_actors", None)
    /\ Wait
    /\ endpoint' = ""
    /\ sent' = <<BuildRequest(self, EP_RESEARCH_ACTORS, <<>>, None)>>

get_actors_reply ==
    /\ Pending("get_actors")
    /\ \E status_code \in StatusCodes, body \in ActorBodies :
       LET response == Response(status_code, body) IN
       /\ Arrive(response)
       /\ UNCHANGED <<noise_ips, offset, sent>>
       /\ LET r == RequestOutcome(response) IN
          IF r.raised THEN Fail(r.error) ELSE Return(r.value)

\* the caller has the value or the exception and the call frame is gone; the
\* instance and the class attributes stay as the operation left them
caller_resumes ==
    /\ pc \in {"returned", "raised"}
    /\ pc' = "idle"
    /\ op' = "none"
    /\ arg' = None
    /\ endpoint' = ""
    /\ noise_ips' = <<>>
    /\ offset' = 0 - 1
    /\ sent' = <<>>
    /\ received' = <<>>
    /\ result' = NoResult
    /\ error' = NoError
    /\ UNCHANGED <<self, code_messages, call, ret>>

----------------------------------------------------------------------------
(* The client and the service *)

NoCall == [function |-> "none"]
NoRet == [done |-> FALSE]

\* GreyNoise(api_key="<api_key>"): __init__, lines 62-67
InitClientIdle ==
    /\ self = [api_key |-> "<api_key>", timeout |-> DEFAULT_TIMEOUT]
    /\ code_messages = CODE_MESSAGES
    /\ pc = "idle"
    /\ op = "none"
    /\ arg = None
    /\ endpoint = ""
    /\ noise_ips = <<>>
    /\ offset = 0 - 1
    /\ sent = <<>>
    /\ received = <<>>
    /\ result = NoResult
    /\ error = NoError

Init ==
    /\ InitClientIdle
    /\ call = NoCall
    /\ ret = NoRet

Next ==
    \/ \E date \in DateArgs : get_noise(date)
    \/ get_noise_page
    \/ \E ip_address \in Addresses : get_noise_status(ip_address)
    \/ get_noise_status_reply
    \/ \E ip_addresses \in BulkArgs : get_noise_status_bulk(ip_addresses)
    \/ get_noise_status_bulk_reply
    \/ \E ip_address \in Addresses : get_context(ip_address)
    \/ get_context_reply
    \/ get_actors
    \/ get_actors_reply
    \/ caller_resumes

Spec == Init /\ [][Next]_vars

----------------------------------------------------------------------------
(* util.validate_ip on its own *)

LabelValues == {NonNumeric, 0, 255, 256, 65536}
AddressStrings == UNION { [1..n -> LabelValues] : n \in 1..MaxLabels }

InitValidate ==
    /\ InitClientIdle
    /\ call \in { [function |-> "validate_ip", ip_address |-> a, strict |-> b] :
                    a \in AddressStrings, b \in BOOLEAN }
    /\ ret = NoRet

validate_ip_call ==
    /\ call.function = "validate_ip"
    /\ ~ret.done
    /\ ret' = [done |-> TRUE, outcome |-> validate_ip(call.ip_address, call.strict)]
    /\ UNCHANGED <<call, self, code_messages, pc, op, arg, endpoint, noise_ips,
                   offset, sent, received, result, error>>

NextValidate == validate_ip_call

SpecValidate == InitValidate /\ [][NextValidate]_vars

----------------------------------------------------------------------------
(* util.load_config *)

(* Texts that load_config may have to read as a number are sequences of     *)
(* characters; the other texts are strings.  The configuration file is     *)
(* missing, or it holds a [greynoise] section with any of the three        *)
(* options; os.environ holds any of the three variables.                   *)

Digits == <<"0", "1", "2", "3", "4", "5", "6", "7", "8", "9">>
DigitValue(c) == (CHOOSE i \in 1..10 : Digits[i] = c) - 1
IsDigit(c) == \E i \in 1..10 : Digits[i] = c

RECURSIVE DigitsValue(_)
DigitsValue(text) ==
    IF text = <<>> THEN 0
    ELSE 10 * DigitsValue(SubSeq(text, 1, Len(text) - 1)) + DigitValue(text[Len(text)])

\* int(text): an optional sign and at least one digit, else ValueError
int(text) ==
    LET signed == text # <<>> /\ text[1] \in {"-", "+"}
        digits == IF signed THEN Tail(text) ELSE text
    IN  IF digits = <<>> \/ \E i \in 1..Len(digits) : ~IsDigit(digits[i])
        THEN Raise(ValueError("invalid literal for int() with base 10"))
        ELSE IF signed /\ text[1] = "-"
             THEN Ok(0 - DigitsValue(digits))
             ELSE Ok(DigitsValue(digits))

\* str(n) of a natural number
RECURSIVE str(_)
str(n) ==
    IF n < 10 THEN <<Digits[n + 1]>> ELSE str(n \div 10) \o <<Digits[(n % 10) + 1]>>

DEFAULT_CONFIG ==
    [api_key |-> "",
     api_server |-> "https://enterprise.api.greynoise.io",
     timeout |-> 60]

\* ConfigParser(defaults), add_section("greynoise")
ConfigParser(defaults) == [defaults |-> defaults, greynoise |-> <<>>]
\* readfp: the options of the file's [greynoise] section
readfp(config_parser, options) ==
    [config_parser EXCEPT !.greynoise = Merge(options, config_parser.greynoise)]
\* set("greynoise", option, value)
set(config_parser, option, value) ==
    [config_parser EXCEPT !.greynoise = SetItem(config_parser.greynoise, option, value)]
\* get("greynoise", option): the section's value, else the default
get(config_parser, option) ==
    Get(config_parser.greynoise, option, config_parser.defaults[option])
\* getint("greynoise", option)
getint(config_parser, option) == int(get(config_parser, option))

\* lines 82-98: a GREYNOISE_TIMEOUT that int() accepts is set, another is not
OverlayTimeout(config_parser, environ) ==
    IF "GREYNOISE_TIMEOUT" \in DOMAIN environ
    THEN IF int(environ["GREYNOISE_TIMEOUT"]).raised
         THEN config_parser
         ELSE set(config_parser, "timeout", environ["GREYNOISE_TIMEOUT"])
    ELSE config_parser

\* (mutant) the file wins: the variable is used only for an option the
\* file does not set
OverlayUnlessInFile(config_parser, environ, name, option) ==
    IF name \in DOMAIN environ /\ option \notin DOMAIN config_parser.greynoise
    THEN set(config_parser, option, environ[name])
    ELSE config_parser

\* lines 64-80: a variable of the environment that is set is set in the parser
Overlay(config_parser, environ, name, option) ==
    IF name \in DOMAIN environ
    THEN set(config_parser, option, environ[name])
    ELSE config_parser

load_config(file, environ) ==
    LET p0 == ConfigParser([api_key |-> DEFAULT_CONFIG.api_key,
                            api_server |-> DEFAULT_CONFIG.api_server,
                            timeout |-> str(DEFAULT_CONFIG.timeout)])
        p1 == IF file.isfile THEN readfp(p0, file.greynoise) ELSE p0
        p2 == Overlay(p1, environ, "GREYNOISE_API_KEY", "api_key")
        p3 == Overlay(p2, environ, "GREYNOISE_API_SERVER", "api_server")
        p4 == OverlayTimeout(p3, environ)
        timeout == getint(p4, "timeout")
    IN  IF timeout.raised
        THEN Raise(timeout.error)
        ELSE Ok([api_key |-> get(p4, "api_key"),
                 api_server |-> get(p4, "api_server"),
                 timeout |-> timeout.value])

ConfigFiles ==
    {[isfile |-> FALSE]}
    \cup { [isfile |-> TRUE, greynoise |-> Merge(Merge(a, b), c)] :
             a \in Opt("api_key", {"file-key"}),
             b \in Opt("api_server", {"https://file.example"}),
             c \in Opt("timeout", {<<"3", "0">>, <<"a", "b">>}) }

Environs ==
    { Merge(Merge(a, b), c) :
        a \in Opt("GREYNOISE_API_KEY", {"", "env-key"}),
        b \in Opt("GREYNOISE_API_SERVER", {"https://env.example"}),
        c \in Opt("GREYNOISE_TIMEOUT", {<<"1", "5">>, <<"-", "1">>, <<"1", "x">>, <<>>}) }

InitConfig ==
    /\ InitClientIdle
    /\ call \in { [function |-> "load_config", file |-> f, environ |-> e] :
                    f \in ConfigFiles, e \in Environs }
    /\ ret = NoRet

load_config_call ==
    /\ call.function = "load_config"
    /\ ~ret.done
    /\ ret' = [done |-> TRUE, outcome |-> load_config(call.file, call.environ)]
    /\ UNCHANGED <<call, self, code_messages, pc, op, arg, endpoint, noise_ips,
                   offset, sent, received, result, error>>

NextConfig == load_config_call

SpecConfig == InitConfig /\ [][NextConfig]_vars

----------------------------------------------------------------------------
(* Notions the claims are stated in *)

\* an HTTP status code of the 2xx class
Is2xx(status_code) == status_code \in 200..299

\* a dotted quad: four decimal labels, each a byte
WellFormedIPv4(ip_address) ==
    /\ Len(ip_address) = 4
    /\ \A i \in 1..4 : ip_address[i] \in 0..255

Last(seq) == seq[Len(seq)]
Payload(i) == ResponseJson(received[i])

\* the noise_ips lists of the pages, one after the other
RECURSIVE PagesIps(_)
PagesIps(responses) ==
    IF responses = <<>> THEN <<>>
    ELSE PagesIps(SubSeq(responses, 1, Len(responses) - 1))
         \o Get(ResponseJson(Last(responses)), "noise_ips", <<>>)

\* the pages received answer a pagination that page Len(received) completes
PaginationCompleted ==
    /\ received # <<>>
    /\ \A i \in 1..Len(received) :
          /\ "complete" \in DOMAIN Payload(i)
          /\ Payload(i).complete = (i = Len(received))

\* the message the table, or the unknown-code template, gives for a code
ExpectedMessage(code) ==
    IF code \in DOMAIN CODE_MESSAGES
    THEN CODE_MESSAGES[code]
    ELSE "Code message unknown: " \o code

\* the object with its code_message, when it has a code
Augmented(object) ==
    IF "code" \in DOMAIN object
    THEN SetItem(object, "code_message", ExpectedMessage(object.code))
    ELSE object

----------------------------------------------------------------------------
(* C1: when every page of a pagination is a successful (2xx) response and  *)
(* the first page with complete=true is page k, get_noise returns the      *)
(* concatenation, in page order, of the noise_ips of pages 1..k.           *)
(* Violated: a page with status 299 is successful, and _request raises     *)
(* RequestFailure for it (see C3).                                         *)
C1_GetNoiseConcatenation ==
    (/\ op = "get_noise"
     /\ PaginationCompleted
     /\ \A i \in 1..Len(received) : Is2xx(received[i].status_code))
    => (/\ pc = "returned"
        /\ result.set
        /\ result.value = PagesIps(received))

\* The same for the pages _request accepts: whenever get_noise returns, it
\* returns the concatenation of the pages it received.
GetNoiseReturnsReceivedPages ==
    (op = "get_noise" /\ pc = "returned")
    => (PaginationCompleted /\ result.value = PagesIps(received))

(* C2: in every operation, a response whose status code is outside 200-299 *)
(* ends the operation with a RequestFailure that carries the status code   *)
(* and the body of that response, and no result is returned.               *)
C2_Non2xxRaisesRequestFailure ==
    \A i \in 1..Len(received) :
        ~Is2xx(received[i].status_code)
        => (/\ i = Len(received)
            /\ pc = "raised"
            /\ error = RequestFailure(received[i].status_code, received[i].content)
            /\ ~result.set)

C2_Witness ==
    /\ op = "get_noise_status_bulk"
    /\ pc = "raised"
    /\ Len(received) = 1
    /\ received[1].status_code = 404
    /\ error.type = "RequestFailure"
    /\ error.status_code = 404

(* C3: for every status code in 200..299, 299 included, no RequestFailure  *)
(* is raised and the JSON payload of the response is what _request         *)
(* returns (get_context and get_actors return it as it is).                *)
(* Violated: range(200, 299) ends at 298.                                  *)
C3_Every2xxReturnsJson ==
    (received # <<>> /\ Is2xx(Last(received).status_code))
    => (/\ error.type # "RequestFailure"
        /\ op \in {"get_context", "get_actors"}
           => (/\ pc = "returned"
               /\ result.set
               /\ result.value = ResponseJson(Last(received))))

(* C4: no retries.  The step that receives a response outside 200-299      *)
(* raises RequestFailure without issuing a request and without returning   *)
(* the pages accumulated; and once an operation has raised, no request is  *)
(* issued and no response is awaited for it.                               *)
C4_NoRetries ==
    [][/\ (pc = "waiting" /\ Len(received') > Len(received)
           /\ ~Is2xx(Last(received').status_code))
          => (/\ pc' = "raised"
              /\ error'.type = "RequestFailure"
              /\ sent' = sent
              /\ ~result'.set)
       /\ pc = "raised"
          => (/\ pc' \in {"raised", "idle"}
              /\ Len(sent') <= Len(sent)
              /\ Len(received') <= Len(received))]_vars

C4_Witness ==
    /\ op = "get_noise"
    /\ pc = "raised"
    /\ Len(received) = 3
    /\ Len(sent) = 3
    /\ ~Is2xx(received[3].status_code)
    /\ noise_ips # <<>>
    /\ ~result.set

(* C5: get_noise_status_bulk on a list of addresses raises no validation   *)
(* error and sends one request whose ips are exactly the well-formed       *)
(* (dotted-quad) addresses of the list, in order and multiplicity.         *)
(* Violated: validate_ip lets through what inet_aton accepts (see C9).     *)
C5_BulkSendsWellFormedOnly ==
    (op = "get_noise_status_bulk" /\ arg.type = "list")
    => (/\ error.type # "ValueError"
        /\ Len(sent) = 1
        /\ sent[1].json.ips = SelectSeq(arg.items, WellFormedIPv4))

\* What the request does carry: the addresses inet_aton accepts.
BulkSendsInetAtonAccepted ==
    (op = "get_noise_status_bulk" /\ arg.type = "list")
    => (/\ error.type # "ValueError"
        /\ Len(sent) = 1
        /\ sent[1].json.ips = SelectSeq(arg.items, inet_aton))

(* C6: an invalid argument (a date that is no date, a malformed IPv4       *)
(* address, a bulk input that is no list) makes the operation raise        *)
(* ValueError with no HTTP request issued.                                 *)
(* Violated: a malformed address that inet_aton accepts is looked up.      *)
C6_InvalidArgumentBeforeNetwork ==
    LET invalid ==
            \/ op = "get_noise" /\ arg.type \notin {"NoneType", "date"}
            \/ op \in {"get_noise_status", "get_context"} /\ ~WellFormedIPv4(arg)
            \/ op = "get_noise_status_bulk" /\ arg.type # "list"
    IN  invalid => (/\ pc = "raised"
                    /\ error.type = "ValueError"
                    /\ sent = <<>>
                    /\ received = <<>>)

\* Every ValueError of the client is raised before any request is issued.
ValueErrorBeforeNetwork ==
    error.type = "ValueError" => (sent = <<>> /\ received = <<>>)

(* C7: when the request of get_noise_status did not fail and the response  *)
(* has a code, the operation returns and code_message is the table entry   *)
(* of the code, or the unknown-code template with the code interpolated    *)
(* when the table has no entry; the same for every entry that              *)
(* get_noise_status_bulk returns, which returns when every entry has a     *)
(* code.  The table CODE_MESSAGES is never modified.                       *)
C7_CodeMessage ==
    /\ code_messages = CODE_MESSAGES
    /\ (/\ op = "get_noise_status"
        /\ received # <<>>
        /\ error.type # "RequestFailure"
        /\ "code" \in DOMAIN Payload(1))
       => (/\ pc = "returned"
           /\ result.value.code = Payload(1).code
           /\ result.value.code_message = ExpectedMessage(Payload(1).code))
    /\ (/\ op = "get_noise_status_bulk"
        /\ received # <<>>
        /\ error.type # "RequestFailure"
        /\ \A i \in 1..Len(Payload(1)) : "code" \in DOMAIN Payload(1)[i])
       => (/\ pc = "returned"
           /\ Len(result.value) = Len(Payload(1))
           /\ \A i \in 1..Len(result.value) :
                 /\ result.value[i].code = Payload(1)[i].code
                 /\ result.value[i].code_message = ExpectedMessage(Payload(1)[i].code))

C7_Witness ==
    /\ op = "get_noise_status_bulk"
    /\ pc = "returned"
    /\ Len(result.value) = 2
    /\ result.value[1].code = "0x05"
    /\ result.value[1].code_message = "IP is commonly spoofed in Internet-scan activity"
    /\ result.value[2].code = "0x09"
    /\ result.value[2].code_message = "Code message unknown: 0x09"

(* C8 as stated: every lookup whose request did not fail returns the       *)
(* service's object, with code_message added exactly when it has a code.   *)
(* Violated: get_noise_status and get_noise_status_bulk raise KeyError for *)
(* an object without a code; get_context never adds code_message.          *)
C8_AugmentedIffCode ==
    (/\ op \in {"get_noise_status", "get_noise_status_bulk", "get_context"}
     /\ received # <<>>
     /\ error.type # "RequestFailure")
    => (/\ pc = "returned"
        /\ result.set
        /\ IF op = "get_noise_status_bulk"
           THEN result.value = [i \in 1..Len(Payload(1)) |-> Augmented(Payload(1)[i])]
           ELSE result.value = Augmented(Payload(1)))

(* C8 amended: when the request did not fail, get_noise_status returns the *)
(* service's object with code_message set from its code, and raises        *)
(* KeyError when the object has no code; get_noise_status_bulk does so     *)
(* for the list, raising KeyError when any entry has no code; get_context  *)
(* returns the service's object as it is, with or without a code.          *)
C8_AugmentedOrKeyError ==
    (received # <<>> /\ error.type # "RequestFailure")
    => (/\ op = "get_noise_status"
           => IF "code" \in DOMAIN Payload(1)
              THEN /\ pc = "returned"
                   /\ result.value = Augmented(Payload(1))
              ELSE /\ pc = "raised"
                   /\ error = KeyError("code")
                   /\ ~result.set
        /\ op = "get_noise_status_bulk"
           => IF \A i \in 1..Len(Payload(1)) : "code" \in DOMAIN Payload(1)[i]
              THEN /\ pc = "returned"
                   /\ result.value = [i \in 1..Len(Payload(1)) |-> Augmented(Payload(1)[i])]
              ELSE /\ pc = "raised"
                   /\ error = KeyError("code")
                   /\ ~result.set
        /\ op = "get_context"
           => (/\ pc = "returned"
               /\ result.value = Payload(1)))

C8_Witness ==
    /\ op = "get_noise_status"
    /\ pc = "raised"
    /\ received # <<>>
    /\ received[1].status_code = 200
    /\ "code" \notin DOMAIN Payload(1)
    /\ error.type = "KeyError"

\* get_context hands back an object with a code and no code_message
C8_ContextWitness ==
    /\ op = "get_context"
    /\ pc = "returned"
    /\ "code" \in DOMAIN result.value
    /\ "code_message" \notin DOMAIN result.value

----------------------------------------------------------------------------
(* C9: validate_ip accepts exactly the dotted quads.  Strict: it returns   *)
(* for a dotted quad and raises ValueError for any other string.           *)
(* Permissive: it never raises and returns whether the string is a dotted  *)
(* quad.                                                                   *)
(* Violated: inet_aton accepts "0", "127.1", "1.2.65535".                  *)
C9_ValidateIpExact ==
    ret.done
    => LET o == ret.outcome
           wellFormed == WellFormedIPv4(call.ip_address)
       IN  IF call.strict
           THEN /\ o.raised <=> ~wellFormed
                /\ o.raised => o.error.type = "ValueError"
           ELSE /\ ~o.raised
                /\ o.value = wellFormed

\* Strict validation raises exactly when permissive validation returns false.
ValidateIpModesAgree ==
    ret.done
    => (validate_ip(call.ip_address, TRUE).raised
        <=> (validate_ip(call.ip_address, FALSE).value = FALSE))

----------------------------------------------------------------------------
(* Precedence as the claims state it: the environment variable, else the   *)
(* value of the file, else the built-in default.                           *)

FileHas(option) == call.file.isfile /\ option \in DOMAIN call.file.greynoise

ByPrecedence(name, option, default) ==
    IF name \in DOMAIN call.environ THEN call.environ[name]
    ELSE IF FileHas(option) THEN call.file.greynoise[option]
    ELSE default

\* the timeout's text, a GREYNOISE_TIMEOUT that is no integer being ignored
TimeoutText ==
    IF "GREYNOISE_TIMEOUT" \in DOMAIN call.environ
       /\ ~int(call.environ["GREYNOISE_TIMEOUT"]).raised
    THEN call.environ["GREYNOISE_TIMEOUT"]
    ELSE IF FileHas("timeout") THEN call.file.greynoise.timeout
    ELSE <<"6", "0">>

FieldsByPrecedence(config) ==
    /\ config.api_key = ByPrecedence("GREYNOISE_API_KEY", "api_key", "")
    /\ config.api_server =
          ByPrecedence("GREYNOISE_API_SERVER", "api_server",
                       "https://enterprise.api.greynoise.io")
    /\ ~int(TimeoutText).raised => config.timeout = int(TimeoutText).value

(* C10 as stated: load_config does not fail and returns each field by      *)
(* precedence, an unparsable GREYNOISE_TIMEOUT being ignored.              *)
(* Violated: a timeout in the file that is no integer makes getint raise.  *)
C10_PrecedenceNeverFails ==
    ret.done
    => (/\ ~ret.outcome.raised
        /\ FieldsByPrecedence(ret.outcome.value))

(* C10 amended: load_config returns each field by precedence, an           *)
(* unparsable GREYNOISE_TIMEOUT being ignored, unless the timeout so       *)
(* resolved is no integer; then, and only then, it raises ValueError, and  *)
(* that timeout is the file's.                                             *)
C10_PrecedenceOrValueError ==
    ret.done
    => IF int(TimeoutText).raised
       THEN /\ ret.outcome.raised
            /\ ret.outcome.error.type = "ValueError"
            /\ FileHas("timeout")
            /\ TimeoutText = call.file.greynoise.timeout
       ELSE /\ ~ret.outcome.raised
            /\ FieldsByPrecedence(ret.outcome.value)

C10_Witness ==
    /\ ret.done
    /\ "GREYNOISE_TIMEOUT" \in DOMAIN call.environ
    /\ call.environ["GREYNOISE_TIMEOUT"] = <<"1", "x">>
    /\ "GREYNOISE_API_KEY" \in DOMAIN call.environ
    /\ call.environ["GREYNOISE_API_KEY"] = "env-key"
    /\ FileHas("timeout")
    /\ FileHas("api_key")
    /\ FileHas("api_server")
    /\ "GREYNOISE_API_SERVER" \notin DOMAIN call.environ
    /\ ~ret.outcome.raised
    /\ ret.outcome.value = [api_key |-> "env-key",
                            api_server |-> "https://file.example",
                            timeout |-> 30]

\* a file whose timeout is no integer: load_config raises
C10_FailureWitness ==
    /\ ret.done
    /\ FileHas("timeout")
    /\ call.file.greynoise.timeout = <<"a", "b">>
    /\ ret.outcome.raised

----------------------------------------------------------------------------
(* The request protocol of get_noise, as C11 states it *)

\* the URL of the bulk endpoint the argument selects
ExpectedNoiseUrl ==
    IF arg.type = "NoneType"
    THEN "https://enterprise.api.greynoise.io/v2/noise/bulk"
    ELSE "https://enterprise.api.greynoise.io/v2/noise/bulk/2019-01-01"

\* every request goes to that endpoint; the first carries no offset, request
\* i > 1 carries the offset response i-1 reports, or -1 when it reports none
RequestsFollowResponses ==
    /\ \A i \in 1..Len(sent) : sent[i].url = ExpectedNoiseUrl
    /\ DOMAIN sent[1].params = {}
    /\ \A i \in 2..Len(sent) :
          /\ i - 1 <= Len(received)
          /\ DOMAIN sent[i].params = {"offset"}
          /\ sent[i].params.offset = Get(Payload(i - 1), "offset", 0 - 1)

\* the pages received carry a complete flag, and none before the last is
\* complete
PagesUpToFirstComplete ==
    /\ received # <<>>
    /\ \A i \in 1..Len(received) :
          /\ "complete" \in DOMAIN Payload(i)
          /\ i < Len(received) => ~Payload(i).complete

\* a page that is complete was answered by as many requests as there are
\* pages and get_noise has returned; a page that is not is followed by one
\* more request, which get_noise waits on
StopsExactlyOnComplete ==
    IF Payload(Len(received)).complete
    THEN /\ Len(sent) = Len(received)
         /\ pc = "returned"
    ELSE /\ Len(sent) = Len(received) + 1
         /\ pc = "waiting"

(* C11: get_noise answered by successful (2xx) pages of which page k is    *)
(* the first with complete=true issues exactly k requests, all to the      *)
(* endpoint its argument selects, the first without offset and request     *)
(* i > 1 with the offset of response i-1 (or -1); it returns on page k,    *)
(* and as long as no page is complete it goes on requesting.               *)
(* Violated: a page with status 299 is successful, and _request raises     *)
(* RequestFailure for it (see C3): get_noise neither returns on it nor     *)
(* requests the next page.                                                 *)
C11_GetNoiseProtocol ==
    (/\ op = "get_noise"
     /\ PagesUpToFirstComplete
     /\ \A i \in 1..Len(received) : Is2xx(received[i].status_code))
    => (/\ RequestsFollowResponses
        /\ StopsExactlyOnComplete)

\* The same for the pages _request accepts (status 200..298).
GetNoiseProtocolOfAcceptedPages ==
    (/\ op = "get_noise"
     /\ PagesUpToFirstComplete
     /\ error.type # "RequestFailure")
    => (/\ RequestsFollowResponses
        /\ StopsExactlyOnComplete)

\* Whatever the service answers: the requests follow the responses, at most
\* one request is unanswered, and one is unanswered exactly while get_noise
\* waits; so no request follows the page on which get_noise ended.
GetNoiseRequestsFollowResponses ==
    (op = "get_noise" /\ sent # <<>>)
    => (/\ RequestsFollowResponses
        /\ Len(sent) = Len(received) + (IF pc = "waiting" THEN 1 ELSE 0)
        /\ (received # <<>> /\ "complete" \in DOMAIN Payload(Len(received))
            /\ Payload(Len(received)).complete)
           => pc \in {"returned", "raised"})

\* three pages, the second without an offset, the third complete
GetNoiseProtocolWitness ==
    /\ op = "get_noise"
    /\ arg.type = "date"
    /\ pc = "returned"
    /\ Len(sent) = 3
    /\ Len(received) = 3
    /\ sent[2].params.offset = 100
    /\ sent[3].params.offset = 0 - 1

====
